---- MODULE Spec2Model ----
(***************************************************************************)
(* opentracing-flask: the active-span stack (_tracing_span_ctx_stack and   *)
(* _ActiveSpanManager) and the lifecycle coordinator (OpenTracingFlask)    *)
(* that maps Flask's signals to pushes, pops and the teardown drain.       *)
(*                                                                         *)
(* A scope and the span it wraps are one object here (scope.span is a      *)
(* field read), identified by its position in the tracer's list of spans.  *)
(* Spans come from an opentracing Tracer: opentracing.Span defines neither *)
(* __bool__ nor __len__, so every span object is truthy.                   *)
(***************************************************************************)
EXTENDS Integers, Sequences, FiniteSets, TLC

\* Execution contexts (one per in-flight request) and OpenTracingFlask
\* instances connected to the application's signals.
Contexts == {"c1", "c2"}
Coordinators == {"k1", "k2"}

\* Bound: the number of spans the tracer hands out in one run.
MaxSpans == 3

\* Python's None, for a frame, a span, a coordinator and a parent reference.
NoSpan == 0
NoOne == "None"
NoFrame == [owner |-> NoOne, span |-> NoSpan]
NoParent == "None"
ParentRefs == {NoParent, "remote"}

\* An inbound request: request.endpoint as the router resolved it ("" when
\* no rule matched) and the coordinators whose request_filter accepts it.
RawEndpoints == {"static", "widgets", ""}
Requests(ks) == [endpoint : RawEndpoints, accepted : SUBSET ks]
NoRequest == [endpoint |-> "unset", accepted |-> {}]

\* The deployments explored, each with the requests the host receives
\* (inbound), the headers they may carry (carriers) and the trace_static
\* settings tried:
\*   one coordinator, one context, every kind of request and setting;
\*   one coordinator serving two concurrent contexts, traced requests;
\*   two coordinators connected to the same application, traced requests.
Plain(ks) == [endpoint |-> "widgets", accepted |-> ks]
Deployments ==
    {[coords |-> {"k1"}, live |-> {"c1"}, inbound |-> Requests({"k1"}),
      carriers |-> ParentRefs, flags |-> BOOLEAN],
     [coords |-> {"k1"}, live |-> {"c1", "c2"}, inbound |-> {Plain({"k1"})},
      carriers |-> {NoParent}, flags |-> {FALSE}],
     [coords |-> {"k1", "k2"}, live |-> {"c1"},
      inbound |-> {Plain({"k1", "k2"})},
      carriers |-> {NoParent}, flags |-> {FALSE}]}

VARIABLES
    coords,        \* the coordinators constructed and connected (init_app)
    live,          \* the execution contexts the host serves requests in
    inbound,       \* the requests the host may receive
    carriers,      \* what tracer.extract may find in their headers
    trace_static,  \* self._trace_static of each coordinator
    stack,         \* _tracing_span_ctx_stack: one list of frames per context
    spans,         \* every span the tracer started, in order of creation
    request,       \* the request each context serves (NoRequest before it)
    rs,            \* what _request_started did per context and coordinator
    draining,      \* the coordinator whose end_all_spans loop runs, per context
    torn,          \* coordinators whose teardown callback has returned or raised
    responded,     \* coordinators that handled request_finished, per context
    excepted,      \* coordinators that handled got_request_exception
    violated,      \* a pop raised RuntimeError in this context
    pending,       \* before_render_template not yet answered by template_rendered
    unmatched,     \* a template_rendered came with no rendering pending
    extracted,     \* what tracer.extract returned to _request_started
    last           \* the handler that ran last: [op, ctx, by, raised]

\* What construction fixes: no handler changes it.
config == <<coords, live, inbound, carriers, trace_static>>

\* What the host and the tracer did, kept to state the properties.
history == <<pending, unmatched, extracted>>

vars == <<coords, live, inbound, carriers, trace_static, stack, spans,
          request, rs, draining, torn, responded, excepted, violated,
          pending, unmatched, extracted, last>>

SpanIds == 1..Len(spans)

(***************************************************************************)
(* werkzeug LocalStack, keyed by the execution context                     *)
(***************************************************************************)

\* A single list shared by every context (what a plain module-level list
\* would be).
LocalKeyShared(c) == CHOOSE d \in Contexts : TRUE

\* LocalStack() stores one list per execution context.
LocalKey(c) == c

\* Reading the oldest frame instead of the newest.
TopOldest(s) == IF s = <<>> THEN NoFrame ELSE s[1]

\* LocalStack.top: the last frame, None when there is none.
Top(s) == IF s = <<>> THEN NoFrame ELSE s[Len(s)]

\* Removing the oldest frame instead of the newest.
LocalPopOldest(s) ==
    IF s = <<>> THEN [rv |-> NoFrame, stack |-> s]
    ELSE [rv |-> s[1], stack |-> Tail(s)]

\* LocalStack.pop: removes and returns the last frame, None when empty.
LocalPop(s) ==
    IF s = <<>> THEN [rv |-> NoFrame, stack |-> s]
    ELSE [rv |-> s[Len(s)], stack |-> SubSeq(s, 1, Len(s) - 1)]

\* current_span: the span of the top frame, None when the stack is empty.
CurrentSpan(s) == IF Top(s) = NoFrame THEN NoSpan ELSE Top(s).span

\* A span object that tests false.
TruthyNever(sp) == FALSE

\* No test at all before the pop.
TruthyAlways(sp) == TRUE

\* bool(current_span): None is falsy, a span object is truthy.
Truthy(sp) == sp /= NoSpan

(***************************************************************************)
(* _ActiveSpanManager                                                      *)
(***************************************************************************)

\* A push that slides the frame under the others.
ManagerPushBottom(s, self, sp) == <<[owner |-> self, span |-> sp]>> \o s

\* push: appends the frame (self, scope).
ManagerPush(s, self, sp) == Append(s, [owner |-> self, span |-> sp])

\* A pop that hands back whatever frame was on top.
ManagerPopUnchecked(s, self) ==
    LET p == LocalPop(s)
    IN  [stack |-> p.stack, raised |-> p.rv = NoFrame, rv |-> p.rv.span]

\* pop: takes the top frame off first, then raises RuntimeError when there
\* was none or when it is another manager's; otherwise returns its scope.
ManagerPop(s, self) ==
    LET p == LocalPop(s)
        bad == p.rv = NoFrame \/ p.rv.owner /= self
    IN  [stack |-> p.stack, raised |-> bad,
         rv |-> IF bad THEN NoSpan ELSE p.rv.span]

\* current: the scope of the top frame; None on the TypeError of None[1].
ManagerCurrent(s) == IF Top(s) = NoFrame THEN NoSpan ELSE Top(s).span

(***************************************************************************)
(* The tracer's spans                                                      *)
(***************************************************************************)

NewSpan(c, self, operation, parent) ==
    [ctx |-> c, owner |-> self, operation |-> operation, parent |-> parent,
     closed |-> 0, tags |-> {}, logged |-> FALSE]

\* scope.close()
Close(sps, sp) == [sps EXCEPT ![sp].closed = @ + 1]

\* span.set_tag(key, ...), for several keys
SetTags(sps, sp, keys) == [sps EXCEPT ![sp].tags = @ \cup keys]

\* span.log_kv(...)
LogKv(sps, sp) == [sps EXCEPT ![sp].logged = TRUE]

Init ==
    /\ \E d \in Deployments :
          /\ coords = d.coords /\ live = d.live
          /\ inbound = d.inbound /\ carriers = d.carriers
          /\ trace_static \in [Coordinators -> d.flags]
          /\ \A k \in Coordinators \ d.coords : ~trace_static[k]
    /\ stack = [c \in Contexts |-> <<>>]
    /\ spans = <<>>
    /\ request = [c \in Contexts |-> NoRequest]
    /\ rs = [c \in Contexts |-> [k \in Coordinators |-> "none"]]
    /\ draining = [c \in Contexts |-> NoOne]
    /\ torn = [c \in Contexts |-> {}]
    /\ responded = [c \in Contexts |-> {}]
    /\ excepted = [c \in Contexts |-> {}]
    /\ violated = [c \in Contexts |-> FALSE]
    /\ pending = [c \in Contexts |-> [k \in Coordinators |-> 0]]
    /\ unmatched = [c \in Contexts |-> FALSE]
    /\ extracted = [c \in Contexts |-> [k \in Coordinators |-> NoParent]]
    /\ last = [op |-> "init", ctx |-> NoOne, by |-> NoOne, raised |-> FALSE]

(***************************************************************************)
(* OpenTracingFlask: the public operations                                 *)
(***************************************************************************)

\* A start that forgets the parent reference it was given.
StartActiveSpanDropsParent(s, sps, c, self, operation, parent) ==
    LET sp == Len(sps) + 1
    IN  [stack |-> ManagerPush(s, self, sp),
         spans |-> Append(sps, NewSpan(c, self, operation, NoParent)),
         span  |-> sp]

\* start_active_span: the tracer starts a span under `parent`, the manager
\* pushes it, the span is returned.
StartActiveSpan(s, sps, c, self, operation, parent) ==
    LET sp == Len(sps) + 1
    IN  [stack |-> ManagerPush(s, self, sp),
         spans |-> Append(sps, NewSpan(c, self, operation, parent)),
         span  |-> sp]

\* end_active_span: when current_span is truthy, pop and close; a raising
\* pop leaves before scope.close().
EndActiveSpan(s, sps, self) ==
    IF Truthy(CurrentSpan(s))
    THEN LET p == ManagerPop(s, self)
         IN  IF p.raised
             THEN [stack |-> p.stack, spans |-> sps, raised |-> TRUE]
             ELSE [stack |-> p.stack, spans |-> Close(sps, p.rv), raised |-> FALSE]
    ELSE [stack |-> s, spans |-> sps, raised |-> FALSE]

\* A drain that stops at the request span.
EndAllSpansGuardChildren(s) == Len(s) > 1

\* A drain whose loop never sees the stack empty.
EndAllSpansGuardAlways(s) == TRUE

\* The guard of the while loop of end_all_spans.
EndAllSpansGuard(s) == ManagerCurrent(s) /= NoSpan

(***************************************************************************)
(* The signal handlers. Within one context the host delivers events one    *)
(* at a time: request_started first, then rendering events and at most one *)
(* got_request_exception, then request_finished, and the teardown last.    *)
(***************************************************************************)

InFlight(c) == c \in live /\ draining[c] = NoOne /\ torn[c] = {}

Dispatching(c) == InFlight(c) /\ responded[c] = {}

Ran(op, c, k, raised) == [op |-> op, ctx |-> c, by |-> k, raised |-> raised]

\* endpoint = request.endpoint if request.endpoint else "[UNMATCHED]"
Endpoint(req) == IF req.endpoint = "" THEN "[UNMATCHED]" ELSE req.endpoint

\* self._request_filter(request)
RequestFilter(k, req) == k \in req.accepted

\* The flag read the wrong way round.
SkipStaticInverted(k, req) == Endpoint(req) = "static" /\ trace_static[k]

\* endpoint == "static" and not self._trace_static
SkipStatic(k, req) == Endpoint(req) = "static" /\ ~trace_static[k]

HttpInTags == {"component", "http.method", "http.url", "span.kind", "endpoint"}

\* _request_started
RequestStarted(c, k, req, parent) ==
    /\ k \in coords
    /\ Dispatching(c)
    /\ rs[c][k] = "none"
    /\ request[c] \in {NoRequest, req}
    /\ request' = [request EXCEPT ![c] = req]
    /\ last' = Ran("request_started", c, k, FALSE)
    /\ IF SkipStatic(k, req)
       THEN /\ rs' = [rs EXCEPT ![c][k] = "skipped_static"]
            /\ UNCHANGED <<stack, spans>>
       ELSE IF ~RequestFilter(k, req)
       THEN /\ rs' = [rs EXCEPT ![c][k] = "filtered"]
            /\ UNCHANGED <<stack, spans>>
       ELSE /\ Len(spans) < MaxSpans
            /\ LET r == StartActiveSpan(stack[LocalKey(c)], spans, c, k,
                                        "Http In", parent)
               IN  /\ stack' = [stack EXCEPT ![LocalKey(c)] = r.stack]
                   /\ spans' = SetTags(r.spans, r.span, HttpInTags)
            /\ rs' = [rs EXCEPT ![c][k] = "traced"]
    /\ extracted' = IF SkipStatic(k, req) \/ ~RequestFilter(k, req)
                    THEN extracted
                    ELSE [extracted EXCEPT ![c][k] = parent]
    /\ UNCHANGED <<config, draining, torn, responded,
                   excepted, violated, pending, unmatched>>

\* A reference to span sp, as a child_of argument.
SpanRef(sp) == ToString(sp)

\* A rendering span started as a child of the span on top of the stack.
BeforeTemplateRenderedChildOf(c, k) ==
    /\ k \in coords
    /\ Dispatching(c)
    /\ rs[c][k] /= "none"
    /\ Len(spans) < MaxSpans
    /\ LET cur == CurrentSpan(stack[LocalKey(c)])
           r == StartActiveSpan(stack[LocalKey(c)], spans, c, k,
                                "Jinja Rendering",
                                IF Truthy(cur) THEN SpanRef(cur) ELSE NoParent)
       IN  /\ stack' = [stack EXCEPT ![LocalKey(c)] = r.stack]
           /\ spans' = SetTags(r.spans, r.span, {"Rendering Template"})
    /\ last' = Ran("before_render_template", c, k, FALSE)
    /\ pending' = [pending EXCEPT ![c][k] = @ + 1]
    /\ UNCHANGED <<config, request, rs, draining, torn,
                   responded, excepted, violated, unmatched, extracted>>

\* A rendering span that is started but never pushed.
BeforeTemplateRenderedNoPush(c, k) ==
    /\ k \in coords
    /\ Dispatching(c)
    /\ rs[c][k] /= "none"
    /\ Len(spans) < MaxSpans
    /\ LET r == StartActiveSpan(stack[LocalKey(c)], spans, c, k,
                                "Jinja Rendering", NoParent)
       IN  spans' = SetTags(r.spans, r.span, {"Rendering Template"})
    /\ last' = Ran("before_render_template", c, k, FALSE)
    /\ pending' = [pending EXCEPT ![c][k] = @ + 1]
    /\ UNCHANGED <<config, stack, request, rs, draining, torn,
                   responded, excepted, violated, unmatched, extracted>>

\* _before_template_rendered
BeforeTemplateRendered(c, k) ==
    /\ k \in coords
    /\ Dispatching(c)
    /\ rs[c][k] /= "none"
    /\ Len(spans) < MaxSpans
    /\ LET r == StartActiveSpan(stack[LocalKey(c)], spans, c, k,
                                "Jinja Rendering", NoParent)
       IN  /\ stack' = [stack EXCEPT ![LocalKey(c)] = r.stack]
           /\ spans' = SetTags(r.spans, r.span, {"Rendering Template"})
    /\ last' = Ran("before_render_template", c, k, FALSE)
    /\ pending' = [pending EXCEPT ![c][k] = @ + 1]
    /\ UNCHANGED <<config, request, rs, draining, torn,
                   responded, excepted, violated, unmatched, extracted>>

\* _template_rendered
TemplateRendered(c, k) ==
    /\ k \in coords
    /\ Dispatching(c)
    /\ rs[c][k] /= "none"
    /\ LET r == EndActiveSpan(stack[LocalKey(c)], spans, k)
       IN  /\ stack' = [stack EXCEPT ![LocalKey(c)] = r.stack]
           /\ spans' = r.spans
           /\ violated' = [violated EXCEPT ![c] = @ \/ r.raised]
           /\ last' = Ran("template_rendered", c, k, r.raised)
    /\ pending' = [pending EXCEPT ![c][k] = IF @ > 0 THEN @ - 1 ELSE 0]
    /\ unmatched' = [unmatched EXCEPT ![c] = @ \/ pending[c][k] = 0]
    /\ UNCHANGED <<config, request, rs, draining, torn,
                   responded, excepted, extracted>>

\* A response hook that also ends the span it tags.
RequestFinishedClosing(c, k) ==
    /\ k \in coords
    /\ InFlight(c)
    /\ rs[c][k] /= "none"
    /\ k \notin responded[c]
    /\ responded' = [responded EXCEPT ![c] = @ \cup {k}]
    /\ LET span == CurrentSpan(stack[LocalKey(c)])
           tagged == IF Truthy(span)
                     THEN SetTags(spans, span, {"http.status_code"})
                     ELSE spans
           r == EndActiveSpan(stack[LocalKey(c)], tagged, k)
       IN  /\ stack' = [stack EXCEPT ![LocalKey(c)] = r.stack]
           /\ spans' = r.spans
           /\ violated' = [violated EXCEPT ![c] = @ \/ r.raised]
           /\ last' = Ran("request_finished", c, k, r.raised)
    /\ UNCHANGED <<config, request, rs, draining, torn, excepted, history>>

\* _request_finished
RequestFinished(c, k) ==
    /\ k \in coords
    /\ InFlight(c)
    /\ rs[c][k] /= "none"
    /\ k \notin responded[c]
    /\ responded' = [responded EXCEPT ![c] = @ \cup {k}]
    /\ LET span == CurrentSpan(stack[LocalKey(c)])
       IN  spans' = IF Truthy(span)
                    THEN SetTags(spans, span, {"http.status_code"})
                    ELSE spans
    /\ last' = Ran("request_finished", c, k, FALSE)
    /\ UNCHANGED <<config, stack, request, rs, draining,
                   torn, excepted, violated, history>>

\* _got_request_exception
GotRequestException(c, k) ==
    /\ k \in coords
    /\ Dispatching(c)
    /\ rs[c][k] /= "none"
    /\ k \notin excepted[c]
    /\ excepted' = [excepted EXCEPT ![c] = @ \cup {k}]
    /\ LET span == CurrentSpan(stack[LocalKey(c)])
       IN  spans' = IF Truthy(span)
                    THEN LogKv(SetTags(spans, span, {"error"}), span)
                    ELSE spans
    /\ last' = Ran("got_request_exception", c, k, FALSE)
    /\ UNCHANGED <<config, stack, request, rs, draining,
                   torn, responded, violated, history>>

\* app.teardown_appcontext(lambda *_, **__: self.end_all_spans()): the
\* callback is called and enters end_all_spans.
TeardownAppcontext(c, k) ==
    /\ k \in coords
    /\ c \in live
    /\ draining[c] = NoOne
    /\ rs[c][k] /= "none"
    /\ k \notin torn[c]
    /\ draining' = [draining EXCEPT ![c] = k]
    /\ last' = Ran("teardown_appcontext", c, k, FALSE)
    /\ UNCHANGED <<config, stack, spans, request, rs,
                   torn, responded, excepted, violated, history>>

\* end_all_spans: one evaluation of the loop guard and, when it holds, one
\* end_active_span; the callback is over when the guard fails or the pop
\* raises.
EndAllSpans(c) ==
    /\ draining[c] /= NoOne
    /\ LET k == draining[c]
           s == stack[LocalKey(c)]
       IN  IF EndAllSpansGuard(s)
           THEN LET r == EndActiveSpan(s, spans, k)
                IN  /\ stack' = [stack EXCEPT ![LocalKey(c)] = r.stack]
                    /\ spans' = r.spans
                    /\ violated' = [violated EXCEPT ![c] = @ \/ r.raised]
                    /\ draining' = [draining EXCEPT ![c] =
                                        IF r.raised THEN NoOne ELSE k]
                    /\ torn' = [torn EXCEPT ![c] =
                                    IF r.raised THEN @ \cup {k} ELSE @]
                    /\ last' = Ran("end_all_spans", c, k, r.raised)
           ELSE /\ draining' = [draining EXCEPT ![c] = NoOne]
                /\ torn' = [torn EXCEPT ![c] = @ \cup {k}]
                /\ last' = Ran("end_all_spans", c, k, FALSE)
                /\ UNCHANGED <<stack, spans, violated>>
    /\ UNCHANGED <<config, request, rs, responded,
                   excepted, history>>

Next ==
    \/ \E c \in Contexts, k \in Coordinators, req \in inbound,
          parent \in carriers : RequestStarted(c, k, req, parent)
    \/ \E c \in Contexts, k \in Coordinators : BeforeTemplateRendered(c, k)
    \/ \E c \in Contexts, k \in Coordinators : TemplateRendered(c, k)
    \/ \E c \in Contexts, k \in Coordinators : RequestFinished(c, k)
    \/ \E c \in Contexts, k \in Coordinators : GotRequestException(c, k)
    \/ \E c \in Contexts, k \in Coordinators : TeardownAppcontext(c, k)
    \/ \E c \in Contexts : EndAllSpans(c)

Spec == Init /\ [][Next]_vars

(***************************************************************************)
(* A Tracer that may fail. self._tracer.start_active_span raises before    *)
(* the push of start_active_span is reached, and the handler that called   *)
(* it is left by the exception.                                            *)
(***************************************************************************)

\* The failing tracer is explored where one coordinator serves one context;
\* the other deployments keep a tracer that always answers.
TracerMayFail == Cardinality(coords) = 1 /\ Cardinality(live) = 1

\* _request_started, for a request it traces, when the tracer raises.
RequestStartedTracerFails(c, k, req, parent) ==
    /\ k \in coords
    /\ TracerMayFail
    /\ Dispatching(c)
    /\ rs[c][k] = "none"
    /\ request[c] \in {NoRequest, req}
    /\ ~SkipStatic(k, req)
    /\ RequestFilter(k, req)
    /\ request' = [request EXCEPT ![c] = req]
    /\ rs' = [rs EXCEPT ![c][k] = "failed"]
    /\ extracted' = [extracted EXCEPT ![c][k] = parent]
    /\ last' = Ran("request_started", c, k, TRUE)
    /\ UNCHANGED <<config, stack, spans, draining, torn, responded,
                   excepted, violated, pending, unmatched>>

\* _before_template_rendered when the tracer raises: the exception leaves
\* the rendering too, so no template_rendered answers this event.
BeforeTemplateRenderedTracerFails(c, k) ==
    /\ k \in coords
    /\ TracerMayFail
    /\ Dispatching(c)
    /\ rs[c][k] /= "none"
    /\ last' = Ran("before_render_template", c, k, TRUE)
    /\ UNCHANGED <<config, stack, spans, request, rs, draining, torn,
                   responded, excepted, violated, history>>

NextTracerFails ==
    \/ Next
    \/ \E c \in Contexts, k \in Coordinators, req \in inbound,
          parent \in carriers : RequestStartedTracerFails(c, k, req, parent)
    \/ \E c \in Contexts, k \in Coordinators :
          BeforeTemplateRenderedTracerFails(c, k)

SpecTracerFails == Init /\ [][NextTracerFails]_vars

(***************************************************************************)
(* Properties                                                              *)
(***************************************************************************)

\* The spans started in context c, and the spans c's stack holds.
SpansOf(c) == {i \in SpanIds : spans[i].ctx = c}
OnStack(c) == {stack[c][j].span : j \in 1..Len(stack[c])}

\* The step closes span i.
Closes(i) == spans'[i].closed > spans[i].closed

\* The step is handler `op` running in context c for coordinator k.
Runs(op, c, k) == last'.op = op /\ last'.ctx = c /\ last'.by = k

OneCoordinator == Cardinality(coords) = 1

\* C1 (leak-free teardown): with one coordinator, once the teardown
\* callback of a context has returned, the context's stack is empty and
\* every span started in the context has been closed exactly once; no span
\* is ever closed twice.
C1_LeakFreeTeardown ==
    \A c \in Contexts :
        /\ OneCoordinator => \A i \in SpansOf(c) : spans[i].closed <= 1
        /\ (OneCoordinator /\ torn[c] = coords) =>
               /\ stack[c] = <<>>
               /\ \A i \in SpansOf(c) : spans[i].closed = 1

\* C1 witness: a torn-down context that started three spans and handled
\* an unhandled error.
C1_Witness ==
    \E c \in Contexts :
        /\ OneCoordinator /\ torn[c] = coords
        /\ Cardinality(SpansOf(c)) = 3
        /\ excepted[c] /= {}

\* C2 (LIFO): in a context where no pop has raised, a step closes at most
\* one span, and the span it closes is the most recently started span of
\* the context that is still open: every span started after it in the
\* same context is already closed.
C2_Lifo ==
    [][\A i \in SpanIds :
          (Closes(i) /\ ~violated'[spans[i].ctx]) =>
              /\ spans[i].closed = 0
              /\ \A j \in SpanIds :
                    /\ (j /= i) => ~Closes(j)
                    /\ (j > i /\ spans[j].ctx = spans[i].ctx) =>
                           spans[j].closed = 1]_vars

\* C2 witness: three starts then two ends in one context, before any
\* teardown: the two spans started last are closed, the first is open.
C2_Witness ==
    \E c \in Contexts :
        /\ InFlight(c) /\ ~violated[c]
        /\ SpansOf(c) = {1, 2, 3}
        /\ spans[3].closed = 1 /\ spans[2].closed = 1 /\ spans[1].closed = 0
        /\ OnStack(c) = {1}

\* C3 (filtering), as claimed: when the coordinator's request_filter
\* rejected the request of a context, no span is ever started in that
\* context and current_span stays empty.
C3_FilteredNeverTraced ==
    \A c \in Contexts : \A k \in coords :
        (OneCoordinator /\ rs[c][k] = "filtered") =>
            /\ SpansOf(c) = {}
            /\ CurrentSpan(stack[c]) = NoSpan

\* C4 (static-asset skip): request_started for a request whose endpoint
\* is "static" starts no span and leaves the stack alone when trace_static
\* is false, whatever request_filter says, and starts and pushes a span
\* exactly when request_filter accepts it when trace_static is true; the
\* teardown of a skipped static request that started no span changes
\* neither the stack nor any span.
C4_StaticSkip ==
    [][\A c \in Contexts : \A k \in coords :
          /\ (Runs("request_started", c, k) /\ rs[c][k] = "none"
              /\ request'[c].endpoint = "static") =>
                 IF ~trace_static[k]
                 THEN /\ stack' = stack /\ spans' = spans
                      /\ rs'[c][k] = "skipped_static"
                 ELSE (/\ Len(spans') = Len(spans) + 1
                       /\ stack'[c] = Append(stack[c],
                              [owner |-> k, span |-> Len(spans')]))
                      <=> RequestFilter(k, request'[c])
          /\ (rs[c][k] = "skipped_static" /\ SpansOf(c) = {}
              /\ last'.ctx = c /\ ~InFlight(c)) =>
                 /\ stack' = stack /\ spans' = spans /\ ~last'.raised]_vars

\* C4 witness: a static request that request_filter accepts was skipped
\* and its context torn down with no span started.
C4_Witness ==
    \E c \in Contexts : \E k \in coords :
        /\ rs[c][k] = "skipped_static"
        /\ RequestFilter(k, request[c])
        /\ torn[c] = coords
        /\ SpansOf(c) = {}

\* C5 (ownership isolation): every frame of a context's stack holds a span
\* started in that context, and a handler running in one context leaves
\* the stack and the spans of every other context as they were.
C5_Isolation ==
    /\ [](\A c \in Contexts : OnStack(c) \subseteq SpansOf(c))
    /\ [][\A c \in Contexts :
             (last'.ctx /= c) =>
                 /\ stack'[c] = stack[c]
                 /\ \A i \in SpansOf(c) : spans'[i] = spans[i]]_vars

\* C5 witness: both contexts hold open spans while a span of one of them
\* has been closed.
C5_Witness ==
    /\ stack["c1"] /= <<>> /\ stack["c2"] /= <<>>
    /\ \E i \in SpanIds : spans[i].closed = 1

\* C6 (ownership check): on every stack the program reaches, pop raises
\* exactly when the stack is empty or its top frame is another owner's, and
\* otherwise returns a span the caller pushed; and a span is only ever
\* closed by the coordinator that started it.
C6_PopChecksOwner ==
    /\ [](\A c \in Contexts : \A k \in Coordinators :
             LET p == ManagerPop(stack[c], k)
             IN  /\ p.raised <=> (stack[c] = <<>> \/ Top(stack[c]).owner /= k)
                 /\ ~p.raised => spans[p.rv].owner = k)
    /\ [][\A i \in SpanIds : Closes(i) => last'.by = spans[i].owner]_vars

\* C6 witness: a handler has just raised from pop while the other
\* coordinator's frame was on top.
C6_Witness ==
    /\ last.raised
    /\ \E i \in SpanIds : spans[i].owner /= last.by /\ spans[i].closed = 0
                          /\ i \notin OnStack(last.ctx)

\* C7 (failed pop keeps the stack), as claimed: a handler whose pop raised
\* leaves the stack of its context exactly as it was.
C7_FailedPopKeepsStack ==
    [][last'.raised => stack'[last'.ctx] = stack[last'.ctx]]_vars

\* C8 (end_active_span): template_rendered, which is end_active_span, on
\* an empty stack raises nothing, closes nothing and leaves the stack empty;
\* on a stack whose top frame is the caller's, whether called from
\* template_rendered or from the drain, it removes that frame alone and
\* closes its span alone.
C8_EndActiveSpan ==
    [][\A c \in Contexts : \A k \in coords :
          /\ (Runs("template_rendered", c, k) /\ stack[c] = <<>>) =>
                 /\ ~last'.raised
                 /\ stack' = stack
                 /\ spans' = spans
          /\ ((Runs("template_rendered", c, k) \/ Runs("end_all_spans", c, k))
              /\ stack[c] /= <<>> /\ Top(stack[c]).owner = k) =>
                 /\ ~last'.raised
                 /\ stack' = [stack EXCEPT ![c] =
                                  SubSeq(stack[c], 1, Len(stack[c]) - 1)]
                 /\ spans' = [spans EXCEPT ![Top(stack[c]).span].closed = @ + 1]
      ]_vars

\* C8 witness: end_active_span has just run in a context that never
\* started a span.
C8_Witness ==
    /\ last.op = "template_rendered" /\ ~last.raised
    /\ SpansOf(last.ctx) = {}

\* C9 (drain idempotence): end_all_spans on an empty stack returns at once:
\* it raises nothing, closes nothing and leaves every stack as it was.
C9_DrainIdempotent ==
    [][\A c \in Contexts :
          (draining[c] /= NoOne /\ last'.ctx = c /\ stack[c] = <<>>) =>
              /\ ~last'.raised
              /\ stack' = stack
              /\ spans' = spans
              /\ draining'[c] = NoOne
              /\ draining[c] \in torn'[c]]_vars

\* C9 witness: a second end_all_spans ran on the stack a first one had
\* drained.
C9_Witness ==
    \E c \in Contexts :
        /\ Cardinality(coords) = 2 /\ torn[c] = coords
        /\ ~violated[c]
        /\ last.op = "end_all_spans" /\ last.ctx = c
        /\ \E i \in SpansOf(c) : spans[i].closed = 1

\* C10 (request_finished and got_request_exception): neither handler
\* pushes, pops, starts or closes a span; it changes nothing but the tags
\* and log of the span on top of its context's stack, and nothing at all
\* when the stack is empty.
C10_TagOnly ==
    [][\A c \in Contexts :
          (last'.op \in {"request_finished", "got_request_exception"}
           /\ last'.ctx = c) =>
              /\ stack' = stack
              /\ ~last'.raised
              /\ Len(spans') = Len(spans)
              /\ \A i \in SpanIds :
                    /\ spans'[i].closed = spans[i].closed
                    /\ (i /= CurrentSpan(stack[c])) => spans'[i] = spans[i]
      ]_vars

\* C10 witness: request_finished has just tagged an open span that
\* got_request_exception had tagged before.
C10_Witness ==
    /\ last.op = "request_finished"
    /\ \E i \in SpanIds :
          /\ {"http.status_code", "error"} \subseteq spans[i].tags
          /\ spans[i].closed = 0
          /\ i \in OnStack(last.ctx)

\* C11 (sub-operation with no active span): before_render_template on an
\* empty stack raises nothing, starts one span with no parent and leaves
\* the stack holding exactly that span's frame, owned by the caller.
C11_RenderingRoot ==
    [][\A c \in Contexts : \A k \in coords :
          (Runs("before_render_template", c, k) /\ stack[c] = <<>>) =>
              /\ ~last'.raised
              /\ Len(spans') = Len(spans) + 1
              /\ spans'[Len(spans')].parent = NoParent
              /\ spans'[Len(spans')].closed = 0
              /\ stack'[c] = <<[owner |-> k, span |-> Len(spans')]>>]_vars

\* C11 witness: a filtered or skipped request whose stack holds one
\* rendering span and nothing else.
C11_Witness ==
    \E c \in Contexts : \E k \in coords :
        /\ rs[c][k] \in {"filtered", "skipped_static"}
        /\ last.op = "before_render_template" /\ last.ctx = c
        /\ Len(stack[c]) = 1
        /\ SpansOf(c) = OnStack(c)
        /\ spans[stack[c][1].span].operation = "Jinja Rendering"

\* The request spans of context c.
RequestSpans(c) == {i \in SpansOf(c) : spans[i].operation = "Http In"}

\* C12 (the request span closes at teardown only): with one coordinator and
\* every template_rendered answering an earlier before_render_template, the
\* request span stays open and on the stack until the teardown begins, and
\* each template_rendered closes exactly one span, a rendering span.
C12_RootClosedAtTeardown ==
    /\ [](\A c \in Contexts :
             (OneCoordinator /\ ~unmatched[c] /\ InFlight(c)) =>
                 \A i \in RequestSpans(c) :
                     spans[i].closed = 0 /\ i \in OnStack(c))
    /\ [][\A c \in Contexts : \A k \in coords :
             (Runs("template_rendered", c, k) /\ OneCoordinator
              /\ ~unmatched'[c]) =>
                 /\ \E i \in SpanIds : Closes(i)
                 /\ \A i \in SpanIds :
                       Closes(i) => spans[i].operation = "Jinja Rendering"
         ]_vars

\* C12 witness: a traced request in flight whose rendering span was closed
\* by template_rendered while the request span is still open on the stack.
C12_Witness ==
    \E c \in Contexts :
        /\ OneCoordinator /\ ~unmatched[c] /\ InFlight(c)
        /\ last.op = "template_rendered" /\ last.ctx = c
        /\ \E i \in RequestSpans(c) : spans[i].closed = 0 /\ i \in OnStack(c)
        /\ \E j \in SpansOf(c) :
              spans[j].operation = "Jinja Rendering" /\ spans[j].closed = 1

\* C13 (status code on the request span), as claimed: with one coordinator
\* and every template_rendered answering an earlier before_render_template,
\* once request_finished has been handled for a traced request the request
\* span carries the http.status_code tag.
C13_StatusOnRequestSpan ==
    \A c \in Contexts : \A k \in coords :
        (OneCoordinator /\ ~unmatched[c] /\ rs[c][k] = "traced"
         /\ k \in responded[c]) =>
            \A i \in RequestSpans(c) : "http.status_code" \in spans[i].tags

\* The step starts a span in context c.
Starts(c) == Len(spans') = Len(spans) + 1 /\ spans'[Len(spans')].ctx = c

\* C14 (parent attachment), as claimed: a span started while the stack of
\* its context is not empty is handed the span of the top frame as its
\* parent, and a span is handed no parent only when the stack is empty and
\* nothing was extracted from the inbound headers.
C14_ParentIsTopOfStack ==
    [][\A c \in Contexts :
          Starts(c) =>
              LET parent == spans'[Len(spans')].parent
              IN  /\ stack[c] /= <<>> =>
                         parent = SpanRef(CurrentSpan(stack[c]))
                  /\ parent = NoParent =>
                         /\ stack[c] = <<>>
                         /\ extracted'[c][last'.by] = NoParent]_vars

\* C14, amended: a rendering span is handed no parent, whether the stack
\* is empty or not; a request span is handed what tracer.extract returned,
\* whatever the stack holds; no span is ever handed the span of a frame.
C14_ParentAsHanded ==
    [][\A c \in Contexts : \A k \in coords :
          (Starts(c) /\ last'.by = k) =>
              LET parent == spans'[Len(spans')].parent
              IN  /\ Runs("before_render_template", c, k) => parent = NoParent
                  /\ Runs("request_started", c, k) =>
                         parent = extracted'[c][k]
                  /\ parent \in ParentRefs
                  /\ \A i \in SpanIds : parent /= SpanRef(i)]_vars

\* C14 witness: a rendering span started above an open request span that
\* has a remote parent, itself with no parent.
C14_Witness ==
    \E c \in Contexts :
        /\ Len(stack[c]) = 2
        /\ spans[stack[c][1].span].operation = "Http In"
        /\ spans[stack[c][1].span].parent = "remote"
        /\ spans[stack[c][2].span].operation = "Jinja Rendering"
        /\ spans[stack[c][2].span].parent = NoParent

C16_StartActiveSpan ==
    [][\A c \in Contexts : \A k \in coords :
          (\/ Runs("before_render_template", c, k)
           \/ Runs("request_started", c, k)
              /\ rs[c][k] = "none" /\ rs'[c][k] \in {"traced", "failed"}) =>
              IF last'.raised
              THEN stack' = stack /\ spans' = spans
              ELSE LET sp == Len(spans')
                   IN  /\ sp = Len(spans) + 1
                       /\ \A i \in SpanIds : spans'[i] = spans[i]
                       /\ stack' = [stack EXCEPT ![c] =
                              Append(stack[c], [owner |-> k, span |-> sp])]
                       /\ CurrentSpan(stack'[c]) = sp
                       /\ spans'[sp].tags /= {}]_vars

\* C16 witness: the tracer has just failed under an open request span,
\* which is still the only frame.
C16_Witness ==
    \E c \in Contexts :
        /\ last.op = "before_render_template" /\ last.raised /\ last.ctx = c
        /\ Len(stack[c]) = 1
        /\ SpansOf(c) = OnStack(c)

\* C17 (current_span is a pure read): in every state current_span, and the
\* manager's current, give the span of the newest frame of the context's
\* stack and nothing when the stack has no frames; the handlers that only
\* read it, _request_finished and _got_request_exception, never raise,
\* leave every stack as it was, close no span, and touch no span but the
\* one it gave them, none at all on an empty stack.
C17_CurrentSpanPureRead ==
    /\ [](\A c \in Contexts :
             LET s == stack[LocalKey(c)]
                 top == IF Len(s) = 0 THEN NoSpan ELSE s[Len(s)].span
             IN  CurrentSpan(s) = top /\ ManagerCurrent(s) = top)
    /\ [][\A c \in Contexts : \A k \in coords :
             (\/ Runs("request_finished", c, k)
              \/ Runs("got_request_exception", c, k)) =>
                 LET s == stack[c]
                     tag == IF last'.op = "request_finished"
                            THEN "http.status_code" ELSE "error"
                 IN  /\ stack' = stack
                     /\ ~last'.raised
                     /\ \A i \in SpanIds :
                            /\ spans'[i].closed = spans[i].closed
                            /\ spans'[i] /= spans[i] =>
                                   Len(s) > 0 /\ i = s[Len(s)].span
                     /\ Len(s) > 0 => tag \in spans'[s[Len(s)].span].tags]_vars

\* C17 witness: the response hook has read the newest of two frames; its
\* span carries the status, the older one does not, both still open and on
\* the stack.
C17_Witness ==
    \E c \in Contexts :
        /\ last.op = "request_finished" /\ last.ctx = c
        /\ Len(stack[c]) = 2
        /\ "http.status_code" \in spans[stack[c][2].span].tags
        /\ "http.status_code" \notin spans[stack[c][1].span].tags
        /\ spans[stack[c][1].span].closed = 0
        /\ spans[stack[c][2].span].closed = 0

\* C18 (an eligible request is traced): _request_started for a request that
\* is not skipped as static and that request_filter accepts starts exactly
\* one span, "Http In", whose parent is what tracer.extract returned (None
\* when it found nothing), tags it, and pushes exactly one frame for it,
\* owned by the coordinator; a request without an endpoint is treated the
\* same, under the endpoint name "[UNMATCHED]".
C18_EligibleRequestTraced ==
    [][\A c \in Contexts : \A k \in coords :
          (/\ Runs("request_started", c, k)
           /\ rs[c][k] = "none"
           /\ ~SkipStatic(k, request'[c])
           /\ RequestFilter(k, request'[c])) =>
              LET sp == Len(spans')
              IN  /\ sp = Len(spans) + 1
                  /\ \A i \in SpanIds : spans'[i] = spans[i]
                  /\ spans'[sp].operation = "Http In"
                  /\ spans'[sp].parent = extracted'[c][k]
                  /\ spans'[sp].tags = HttpInTags
                  /\ spans'[sp].closed = 0
                  /\ stack' = [stack EXCEPT ![c] =
                         Append(stack[c], [owner |-> k, span |-> sp])]
                  /\ rs'[c][k] = "traced"
                  /\ ~last'.raised]_vars

\* C18 witness: a request with no endpoint and a remote parent in its
\* headers has just been traced.
C18_Witness ==
    \E c \in Contexts : \E k \in coords :
        /\ last = Ran("request_started", c, k, FALSE)
        /\ request[c] /= NoRequest
        /\ Endpoint(request[c]) = "[UNMATCHED]"
        /\ rs[c][k] = "traced"
        /\ extracted[c][k] = "remote"
        /\ Len(stack[c]) = 1
        /\ spans[stack[c][1].span].parent = "remote"
        /\ spans[stack[c][1].span].operation = "Http In"

\* The number of frames of the stack of c that hold span i.
FramesOf(c, i) ==
    Cardinality({j \in 1..Len(stack[c]) : stack[c][j].span = i})

\* C19 (no span is lost), as claimed: every span that was started is either
\* on the stack of its context, in exactly one frame and open, or off the
\* stack and closed exactly once.
C19_NoSpanLost ==
    \A i \in SpanIds :
        \/ FramesOf(spans[i].ctx, i) = 1 /\ spans[i].closed = 0
        \/ FramesOf(spans[i].ctx, i) = 0 /\ spans[i].closed = 1

====
